---- MODULE Spec2Model ----
(***************************************************************************)
(* The arcade of src/arcade.py (and the stand-alone src/hangman.py): the   *)
(* GameState protocol, FinishedGame, Hangman, RockScissorPaper and         *)
(* Blackjack.  Strings are sequences of one-character strings, so that     *)
(* lower(), the first character of an answer and membership in a word are  *)
(* computed, not assumed.                                                  *)
(*                                                                         *)
(* Spec drives one game object through its next() method: Init is the      *)
(* object right after its constructor, and each action is one call of      *)
(* next(answer) on the current object with a non-empty answer.             *)
(*                                                                         *)
(* SpecArcade is the program arcade.py runs: Menu().run(), with the run()  *)
(* loop of the chosen game inside Menu.next; each action is one iteration  *)
(* of a run() loop, from its input() to the test of its while.             *)
(***************************************************************************)
EXTENDS Integers, Sequences, FiniteSets, TLC

VARIABLES
    game,                \* the current GameState object (`game` in GameState.run)
    answer,              \* the answer of the last next() call (<<>> before the first)
    gl,                  \* Hangman.next: local gl of the last call
    g,                   \* Hangman.next: local g of the last call
    computerChoiceIndex, \* RockScissorPaper.next: the last random draw (-1: none)
    created,             \* the constructor call that built the game
    bankHand,            \* Blackjack.bankHand.cards
    playerHand,          \* Blackjack.playerHand.cards
    deck,                \* BlackjackDeck.cards, shared by both hands
    ends,                \* the calls of Blackjack.end made on the game
    defaultGuessed,      \* the set object that is the default of Hangman.__init__'s guessed
    guessedIsDefault,    \* whether game.guessed is that object
    guessedMutated,      \* whether the last Hangman.next changed the set object self.guessed
    pc,                  \* the run() loop waiting for input: "menu" or "game"; "done": Menu().run()
                         \* has returned; "next": no loop, next() is called directly
    menu,                \* `game` in the run() loop of the Menu
    calls,               \* the arguments of the next() calls of the last run() iteration
    hangmanCreated       \* the Hangman games created by the Menu so far

\* the variables of a game object and of the calls made on it
objVars ==
    <<game, gl, g, computerChoiceIndex, bankHand, playerHand, deck, ends,
      defaultGuessed, guessedIsDefault, guessedMutated>>

\* the variables of the run() loops
loopVars == <<pc, menu, calls, hangmanCreated>>

vars == <<objVars, answer, created, loopVars>>

----------------------------------------------------------------------------
\* Bounds of the model

\* Hangman.create is tried with every budget 1..MaxGuesses
MaxGuesses == 5

\* random.shuffle is drawn from the permutations i -> stride*i + offset of the
\* deck positions, for every offset and every stride up to MaxStride
MaxStride == 13

\* the Menu starts at most MaxHangmanGames games of Hangman
MaxHangmanGames == 2

\* the games of Blackjack the Menu starts are played on the new deck cut at a
\* position up to MaxMenuCut
MaxMenuCut == 3

----------------------------------------------------------------------------
\* Text

UpperCase == <<"A","B","C","D","E","F","G","H","I","J","K","L","M","N","O",
               "P","Q","R","S","T","U","V","W","X","Y","Z","Å","Ä","Ö">>

LowerCase == <<"a","b","c","d","e","f","g","h","i","j","k","l","m","n","o",
               "p","q","r","s","t","u","v","w","x","y","z","å","ä","ö">>

\* str.lower() on one character
Lower(c) ==
    IF \E i \in 1..Len(UpperCase) : UpperCase[i] = c
    THEN LowerCase[CHOOSE i \in 1..Len(UpperCase) : UpperCase[i] = c]
    ELSE c

\* str.lower()
LowerStr(s) == [i \in 1..Len(s) |-> Lower(s[i])]

\* set(s): the characters of a string
CharSet(s) == {s[i] : i \in 1..Len(s)}

\* the word list Menu.next and hangman.py hand to Hangman.create
words == << <<"A","p","a">>,
            <<"B","j","ö","r","n">>,
            <<"C","i","k","a","d","a">>,
            <<"D","v","ä","r","g","h","a","m","s","t","e","r">>,
            <<"E","l","e","f","a","n","t">>,
            <<"F","l","o","d","h","ä","s","t">>,
            <<"G","i","r","a","f","f">> >>

\* RockScissorPaper.alternatives and RockScissorPaper.winsOver (0-based indices)
alternatives == << <<"s","t","e","n">>, <<"s","a","x">>, <<"p","å","s","e">> >>

\* winsOver with the cycle reversed
winsOverMutant == <<2, 0, 1>>

winsOver == <<1, 2, 0>>

\* the two commands of Blackjack.next
Hit == <<"h","i","t">>

Stand == <<"s","t","a","n","d">>

\* The answers tried: single characters, the commands of the games, a whole word
Chars == {"A", "a", "p", "x", "y", "z"}

Answers ==
    {<<c>> : c \in Chars}
        \cup {alternatives[i] : i \in 1..Len(alternatives)}
        \cup {Hit, Stand, words[1]}

----------------------------------------------------------------------------
\* GameState and FinishedGame

FinishedGame(word) == [cls |-> "FinishedGame", message |-> word]

\* done(): GameState's default is True; every game class overrides it with False
done(self) ==
    IF self.cls \in {"Hangman", "RockScissorPaper", "Blackjack", "Menu"}
    THEN FALSE
    ELSE TRUE

\* info(): GameState's default is ""; FinishedGame returns its message
info(self) == IF self.cls = "FinishedGame" THEN self.message ELSE <<>>

\* a next that builds a new FinishedGame from the answer
FinishedGameNextMutant(self, a) == FinishedGame(a)

\* FinishedGame.next
FinishedGameNextResult(self, a) == self

----------------------------------------------------------------------------
\* Hangman

Hangman(guessesLeft, word, guessed) ==
    [cls |-> "Hangman", guessesLeft |-> guessesLeft, word |-> word, guessed |-> guessed]

\* guessedChar,*_ = answer.lower()
guessedChar(a) == Head(LowerStr(a))

\* correctGuess = guessedChar in self.word.lower()
correctGuess(self, a) == guessedChar(a) \in CharSet(LowerStr(self.word))

\* gl without the test for a letter already guessed
HangmanGlMutant(self, a) ==
    IF correctGuess(self, a) THEN self.guessesLeft ELSE self.guessesLeft - 1

\* gl = self.guessesLeft if guessedChar in self.guessed or correctGuess else self.guessesLeft - 1
HangmanGl(self, a) ==
    IF guessedChar(a) \in self.guessed \/ correctGuess(self, a)
    THEN self.guessesLeft
    ELSE self.guessesLeft - 1

\* g without the new character
HangmanGMutant(self, a) == self.guessed

\* g = self.guessed.union([guessedChar])
HangmanG(self, a) == self.guessed \cup {guessedChar(a)}

\* foundWord without lower()
foundWordMutant(self, a) == CharSet(self.word) \subseteq HangmanG(self, a)

\* foundWord = set(self.word.lower()).issubset(g)
foundWord(self, a) == CharSet(LowerStr(self.word)) \subseteq HangmanG(self, a)

\* gl < 0
outOfGuessesMutant(self, a) == HangmanGl(self, a) < 0

\* gl < 1
outOfGuesses(self, a) == HangmanGl(self, a) < 1

\* Hangman.next without the loss branch
HangmanNextResultMutant(self, a) ==
    IF foundWord(self, a)
    THEN FinishedGame(<<"Du hittade ordet ", self.word>>)
    ELSE Hangman(HangmanGl(self, a), self.word, HangmanG(self, a))

\* the value Hangman.next returns
HangmanNextResult(self, a) ==
    IF foundWord(self, a)
    THEN FinishedGame(<<"Du hittade ordet ", self.word>>)
    ELSE IF outOfGuesses(self, a)
         THEN FinishedGame(<<"Du hittade inte ordet ", self.word>>)
         ELSE Hangman(HangmanGl(self, a), self.word, HangmanG(self, a))

----------------------------------------------------------------------------
\* Rock Scissor Paper

\* self.alternatives.index(answer), 0-based
IndexOf(a) == (CHOOSE i \in 1..Len(alternatives) : alternatives[i] = a) - 1

\* a next without the early return: an answer outside the alternatives is a draw
RockScissorPaperNextMutant(self, a, c) ==
    IF ~(\E i \in 1..Len(alternatives) : alternatives[i] = a)
    THEN FinishedGame(<<"Oavgjort">>)
    ELSE IF c = IndexOf(a)
         THEN FinishedGame(<<"Oavgjort">>)
         ELSE IF winsOver[IndexOf(a) + 1] = c
              THEN FinishedGame(<<"Du vann mot ", alternatives[c + 1]>>)
              ELSE FinishedGame(<<"Du förlorar mot ", alternatives[c + 1]>>)

\* the value RockScissorPaper.next returns when random.randint draws c
RockScissorPaperNextResult(self, a, c) ==
    IF ~(\E i \in 1..Len(alternatives) : alternatives[i] = a)
    THEN self
    ELSE IF c = IndexOf(a)
         THEN FinishedGame(<<"Oavgjort">>)
         ELSE IF winsOver[IndexOf(a) + 1] = c
              THEN FinishedGame(<<"Du vann mot ", alternatives[c + 1]>>)
              ELSE FinishedGame(<<"Du förlorar mot ", alternatives[c + 1]>>)

----------------------------------------------------------------------------
\* Blackjack

BlackjackCard(label, value) == [label |-> label, value |-> value]

cardColor == <<"Spader", "Hjärter", "Ruter", "Klöver">>

cardName == <<"Ess", "Två", "Tre", "Fyra", "Fem", "Sex", "Sju", "Åtta", "Nio", "Tio",
              "Knekt", "Dam", "Kung">>

cardValue == <<11, 2, 3, 4, 5, 6, 7, 8, 9, 10, 10, 10, 10>>

\* BlackjackDeck.__init__, before the shuffle: one card for each i in range(1, 52).
\* The label f"{color} {name}" is the pair <<color, name>>.
NewCards ==
    [i \in 1..51 |->
        BlackjackCard(<<cardColor[(i % 4) + 1], cardName[(i % 13) + 1]>>,
                      cardValue[(i % 13) + 1])]

Coprime(a, n) == \A d \in 2..a : ~(a % d = 0 /\ n % d = 0)

\* random.shuffle(cards): the permutations tried
Shuffle(cards, stride, offset) ==
    [j \in 1..Len(cards) |-> cards[((stride * (j - 1) + offset) % Len(cards)) + 1]]

Shuffles(cards) ==
    {Shuffle(cards, stride, offset) :
        stride \in {a \in 1..MaxStride : Coprime(a, Len(cards))},
        offset \in 0..(Len(cards) - 1)}

\* random.shuffle(cards): the permutations tried in the games the Menu starts
MenuShuffles(cards) == {Shuffle(cards, 1, offset) : offset \in 0..MaxMenuCut}

\* BlackjackHand.takeCard on a hand holding `cards`, with BlackjackDeck.drawCard on
\* the deck `dk`: list.pop() takes the last card, and raises IndexError on an empty list
takeCard(cards, dk) ==
    IF Len(dk) = 0
    THEN [cards |-> cards, deck |-> dk, raised |-> TRUE]
    ELSE [cards |-> Append(cards, dk[Len(dk)]),
          deck |-> SubSeq(dk, 1, Len(dk) - 1),
          raised |-> FALSE]

RECURSIVE SumValues(_)
SumValues(cards) ==
    IF cards = <<>> THEN 0 ELSE SumValues(SubSeq(cards, 1, Len(cards) - 1)) + cards[Len(cards)].value

\* BlackjackHand.value
value(cards) == SumValues(cards)

RECURSIVE takeCardsUntilValueGtMutant(_, _, _)
\* takeCardsUntilValue with > for <
takeCardsUntilValueGtMutant(cards, dk, v) ==
    IF value(cards) > v
    THEN LET t == takeCard(cards, dk)
         IN  IF t.raised THEN t ELSE takeCardsUntilValueGtMutant(t.cards, t.deck, v)
    ELSE [cards |-> cards, deck |-> dk, raised |-> FALSE]

RECURSIVE takeCardsUntilValue(_, _, _)
\* takeCardsUntilValue with <= for <
takeCardsUntilValueMutant(cards, dk, v) ==
    IF value(cards) <= v
    THEN LET t == takeCard(cards, dk)
         IN  IF t.raised THEN t ELSE takeCardsUntilValue(t.cards, t.deck, v)
    ELSE [cards |-> cards, deck |-> dk, raised |-> FALSE]

\* BlackjackHand.takeCardsUntilValue
takeCardsUntilValue(cards, dk, v) ==
    IF value(cards) < v
    THEN LET t == takeCard(cards, dk)
         IN  IF t.raised THEN t ELSE takeCardsUntilValue(t.cards, t.deck, v)
    ELSE [cards |-> cards, deck |-> dk, raised |-> FALSE]

\* ", ".join(card.label for card in cards)
Labels(cards) == [i \in 1..Len(cards) |-> cards[i].label]

\* playerWon with the test playerValue <= 21 applied to both alternatives
playerWonBustMutant(bankValue, playerValue) ==
    (playerValue > bankValue \/ bankValue > 21) /\ playerValue <= 21

\* playerWon with >= for >
playerWonMutant(bankValue, playerValue) ==
    (playerValue >= bankValue /\ playerValue <= 21) \/ bankValue > 21

\* playerWon in Blackjack.end
playerWon(bankValue, playerValue) ==
    (playerValue > bankValue /\ playerValue <= 21) \/ bankValue > 21

\* Blackjack.end
end(bank, player) ==
    FinishedGame(<<"Bankens hand: ", Labels(bank), ", totalt värde ", value(bank),
                   "Din hand: ", Labels(player), ", totalt värde ", value(player),
                   IF playerWon(value(bank), value(player)) THEN "Du vann" ELSE "Banken vann">>)

\* the bust test with 22 for 21
bustMutant(player) == value(player) > 22

\* self.playerHand.value() > 21 in Blackjack.next
bust(player) == value(player) > 21

\* the state an uncaught IndexError leaves: the program has stopped
Raised == [cls |-> "IndexError"]

----------------------------------------------------------------------------
\* next(answer) on any object

\* a next that takes every answer but "stand" for "hit"
BlackjackNextMutant(self, bank, player, dk, a) ==
    IF a = Stand
    THEN LET t == takeCardsUntilValue(bank, dk, 17)
         IN  [game |-> IF t.raised THEN Raised ELSE end(t.cards, player),
              bankHand |-> t.cards, playerHand |-> player, deck |-> t.deck,
              ends |-> IF t.raised THEN 0 ELSE 1]
    ELSE LET t == takeCard(player, dk)
         IN  [game |-> IF t.raised THEN Raised
                       ELSE IF bust(t.cards) THEN end(bank, t.cards)
                       ELSE self,
              bankHand |-> bank, playerHand |-> t.cards, deck |-> t.deck,
              ends |-> IF ~t.raised /\ bust(t.cards) THEN 1 ELSE 0]

\* the value Blackjack.next returns, with what it leaves in the hands and the deck
\* and the calls of end() it makes
BlackjackNextResult(self, bank, player, dk, a) ==
    IF a = Stand
    THEN LET t == takeCardsUntilValue(bank, dk, 17)
         IN  [game |-> IF t.raised THEN Raised ELSE end(t.cards, player),
              bankHand |-> t.cards, playerHand |-> player, deck |-> t.deck,
              ends |-> IF t.raised THEN 0 ELSE 1]
    ELSE IF a = Hit
         THEN LET t == takeCard(player, dk)
              IN  [game |-> IF t.raised THEN Raised
                            ELSE IF bust(t.cards) THEN end(bank, t.cards)
                            ELSE self,
                   bankHand |-> bank, playerHand |-> t.cards, deck |-> t.deck,
                   ends |-> IF ~t.raised /\ bust(t.cards) THEN 1 ELSE 0]
         ELSE [game |-> self, bankHand |-> bank, playerHand |-> player, deck |-> dk,
               ends |-> 0]

\* a next that adds the character to self.guessed in place (guessed.add)
selfGuessedAfterMutant(self, a) == self.guessed \cup {guessedChar(a)}

\* what Hangman.next leaves in the set object self.guessed: union() builds a new set
selfGuessedAfter(self, a) == self.guessed

\* the game object and the locals of the calls made on it
Obj ==
    [game |-> game, gl |-> gl, g |-> g, computerChoiceIndex |-> computerChoiceIndex,
     bankHand |-> bankHand, playerHand |-> playerHand, deck |-> deck, ends |-> ends,
     defaultGuessed |-> defaultGuessed, guessedIsDefault |-> guessedIsDefault,
     guessedMutated |-> guessedMutated]

Becomes(o) ==
    /\ game' = o.game
    /\ gl' = o.gl
    /\ g' = o.g
    /\ computerChoiceIndex' = o.computerChoiceIndex
    /\ bankHand' = o.bankHand
    /\ playerHand' = o.playerHand
    /\ deck' = o.deck
    /\ ends' = o.ends
    /\ defaultGuessed' = o.defaultGuessed
    /\ guessedIsDefault' = o.guessedIsDefault
    /\ guessedMutated' = o.guessedMutated

\* the state an uncaught ValueError leaves: guessedChar,*_ = "" cannot be unpacked
RaisedValueError == [cls |-> "ValueError"]

\* o.game.next(a), dispatched on the class of the object; c is the draw of
\* random.randint, used by RockScissorPaper.next on a valid answer
next(o, a, c) ==
    CASE o.game.cls = "Hangman" ->
            IF a = <<>>
            THEN [o EXCEPT !.game = RaisedValueError]
            ELSE [o EXCEPT !.game = HangmanNextResult(o.game, a),
                           !.gl = HangmanGl(o.game, a),
                           !.g = HangmanG(o.game, a),
                           !.defaultGuessed =
                               IF o.guessedIsDefault THEN selfGuessedAfter(o.game, a) ELSE @,
                           !.guessedMutated = (selfGuessedAfter(o.game, a) # o.game.guessed),
                           !.guessedIsDefault = FALSE]
      [] o.game.cls = "RockScissorPaper" ->
            [o EXCEPT !.game = RockScissorPaperNextResult(o.game, a, c),
                      !.computerChoiceIndex =
                          IF \E i \in 1..Len(alternatives) : alternatives[i] = a THEN c ELSE @]
      [] o.game.cls = "Blackjack" ->
            LET r == BlackjackNextResult(o.game, o.bankHand, o.playerHand, o.deck, a)
            IN  [o EXCEPT !.game = r.game,
                          !.bankHand = r.bankHand,
                          !.playerHand = r.playerHand,
                          !.deck = r.deck,
                          !.ends = @ + r.ends]
      [] o.game.cls = "FinishedGame" ->
            [o EXCEPT !.game = FinishedGameNextResult(o.game, a)]

----------------------------------------------------------------------------
\* Construction

\* an object state with no game in it
NoGame(default) ==
    [game |-> [cls |-> "None"], gl |-> 0, g |-> {}, computerChoiceIndex |-> -1,
     bankHand |-> <<>>, playerHand |-> <<>>, deck |-> <<>>, ends |-> 0,
     defaultGuessed |-> default, guessedIsDefault |-> FALSE, guessedMutated |-> FALSE]

\* Hangman(guessesLeft, word): guessed is the default object of __init__
HangmanCreated(n, word, default) ==
    [NoGame(default) EXCEPT !.game = Hangman(n, word, default), !.guessedIsDefault = TRUE]

RockScissorPaperCreated(default) ==
    [NoGame(default) EXCEPT !.game = [cls |-> "RockScissorPaper"]]

\* Blackjack.__init__ with the player served before the bank
DealMutant(cards) ==
    LET p1 == takeCard(<<>>, cards)
        p2 == takeCard(p1.cards, p1.deck)
        b1 == takeCard(<<>>, p2.deck)
        b2 == takeCard(b1.cards, b1.deck)
    IN  [bankHand |-> b2.cards, playerHand |-> p2.cards, deck |-> b2.deck]

\* Blackjack.__init__: two cards to the bank, then two to the player
Deal(cards) ==
    LET b1 == takeCard(<<>>, cards)
        b2 == takeCard(b1.cards, b1.deck)
        p1 == takeCard(<<>>, b2.deck)
        p2 == takeCard(p1.cards, p1.deck)
    IN  [bankHand |-> b2.cards, playerHand |-> p2.cards, deck |-> p2.deck]

\* Blackjack() on the shuffled deck `cards`
BlackjackCreated(cards, default) ==
    [NoGame(default) EXCEPT !.game = [cls |-> "Blackjack"],
                            !.bankHand = Deal(cards).bankHand,
                            !.playerHand = Deal(cards).playerHand,
                            !.deck = Deal(cards).deck]

\* Hangman.create(guessesLeft, words): __init__ with the default guessed = set()
InitHangman ==
    \E n \in 1..MaxGuesses, w \in 1..Len(words) :
        /\ game = Hangman(n, words[w], {})
        /\ created = [cls |-> "Hangman", guessesLeft |-> n, word |-> words[w]]
        /\ bankHand = <<>> /\ playerHand = <<>> /\ deck = <<>>

InitRockScissorPaper ==
    /\ game = [cls |-> "RockScissorPaper"]
    /\ created = [cls |-> "RockScissorPaper"]
    /\ bankHand = <<>> /\ playerHand = <<>> /\ deck = <<>>

\* Blackjack.__init__: a shuffled deck, two cards to the bank, then two to the player
InitBlackjack ==
    \E cards \in Shuffles(NewCards) :
        /\ game = [cls |-> "Blackjack"]
        /\ created = [cls |-> "Blackjack", cards |-> cards]
        /\ bankHand = Deal(cards).bankHand
        /\ playerHand = Deal(cards).playerHand
        /\ deck = Deal(cards).deck

Init ==
    /\ answer = <<>>
    /\ gl = 0
    /\ g = {}
    /\ computerChoiceIndex = -1
    /\ (InitHangman \/ InitRockScissorPaper \/ InitBlackjack)
    /\ ends = 0
    /\ defaultGuessed = {}
    /\ guessedIsDefault = (game.cls = "Hangman")
    /\ guessedMutated = FALSE
    /\ pc = "next"
    /\ menu = [cls |-> "None"]
    /\ calls = <<>>
    /\ hangmanCreated = 0

----------------------------------------------------------------------------
\* next(answer), one action for each class

FinishedGameNext ==
    /\ game.cls = "FinishedGame"
    /\ \E a \in Answers :
        /\ answer' = a
        /\ \E o \in {next(Obj, a, computerChoiceIndex)} : Becomes(o)
    /\ UNCHANGED <<created, loopVars>>

HangmanNext ==
    /\ game.cls = "Hangman"
    /\ \E a \in Answers :
        /\ answer' = a
        /\ \E o \in {next(Obj, a, computerChoiceIndex)} : Becomes(o)
    /\ UNCHANGED <<created, loopVars>>

RockScissorPaperNext ==
    /\ game.cls = "RockScissorPaper"
    /\ \E a \in Answers :
        /\ answer' = a
        /\ IF \E i \in 1..Len(alternatives) : alternatives[i] = a
           THEN \E c \in 0..(Len(alternatives) - 1) : \E o \in {next(Obj, a, c)} : Becomes(o)
           ELSE \E o \in {next(Obj, a, computerChoiceIndex)} : Becomes(o)
    /\ UNCHANGED <<created, loopVars>>

BlackjackNext ==
    /\ game.cls = "Blackjack"
    /\ \E a \in Answers :
        /\ answer' = a
        /\ \E o \in {next(Obj, a, computerChoiceIndex)} : Becomes(o)
    /\ UNCHANGED <<created, loopVars>>

Next == FinishedGameNext \/ HangmanNext \/ RockScissorPaperNext \/ BlackjackNext

Spec == Init /\ [][Next]_vars

----------------------------------------------------------------------------
\* GameState.run and the Menu

\* the lines typed at the prompt of the Menu, and at the prompt of a game
MenuLines == {<<>>, <<"1">>, <<"2">>, <<"3">>, <<"x">>, Hit}

GameLines == Answers \cup {<<>>}

\* a loop that hands every line to next
RunCallsMutant(line) == <<line>>

\* the next() calls of one iteration of run(): if answer: game = game.next(answer)
RunCalls(line) == IF line # <<>> THEN <<line>> ELSE <<>>

\* a loop that returns after its first iteration
RunContinuesMutant(self) == FALSE

\* while (not game.done())
RunContinues(self) == ~done(self)

\* the object after the calls of one iteration
RECURSIVE RunIteration(_, _, _)
RunIteration(o, args, c) ==
    IF args = <<>> THEN o ELSE RunIteration(next(o, Head(args), c), Tail(args), c)

\* where control is once a game's run() has made its calls: an uncaught
\* exception ends the program, a finished game returns into Menu.next
AfterGame(self) ==
    IF self.cls \in {"IndexError", "ValueError"} THEN "raised"
    ELSE IF RunContinues(self) THEN "game"
    ELSE "menu"

\* a Menu that starts Hangman on "1" and Blackjack on "2"
MenuStartsMutant(a) ==
    IF a = <<"1">> THEN "Hangman"
    ELSE IF a = <<"2">> THEN "Blackjack"
    ELSE IF a = <<"3">> THEN "RockScissorPaper"
    ELSE "None"

\* the game Menu.next creates and runs
MenuStarts(a) ==
    IF a = <<"1">> THEN "Blackjack"
    ELSE IF a = <<"2">> THEN "Hangman"
    ELSE IF a = <<"3">> THEN "RockScissorPaper"
    ELSE "None"

\* the value Menu.next returns (once the game it started, if any, is finished)
MenuNextResult(self, a) == IF a = <<"x">> THEN FinishedGame(<<>>) ELSE self

\* Menu().run() before its first input()
InitArcade ==
    /\ pc = "menu"
    /\ menu = [cls |-> "Menu"]
    /\ answer = <<>>
    /\ calls = <<>>
    /\ created = [cls |-> "None"]
    /\ hangmanCreated = 0
    /\ game = [cls |-> "None"]
    /\ gl = 0
    /\ g = {}
    /\ computerChoiceIndex = -1
    /\ bankHand = <<>> /\ playerHand = <<>> /\ deck = <<>>
    /\ ends = 0
    /\ defaultGuessed = {}
    /\ guessedIsDefault = FALSE
    /\ guessedMutated = FALSE

\* One iteration of the Menu's run(): a line is read; a non-empty one goes to
\* Menu.next, which starts the run() of the game chosen, returns a FinishedGame
\* on "x" and the Menu itself otherwise.  The game of the round before is no
\* longer referenced once Menu.next is entered again.
MenuLine ==
    /\ pc = "menu"
    /\ \E line \in MenuLines :
        /\ answer' = line
        /\ calls' = RunCalls(line)
        /\ IF RunCalls(line) = <<>>
           THEN UNCHANGED <<objVars, created, pc, menu, hangmanCreated>>
           ELSE CASE MenuStarts(line) = "Blackjack" ->
                        \E cards \in MenuShuffles(NewCards) :
                            /\ Becomes(BlackjackCreated(cards, defaultGuessed))
                            /\ created' = [cls |-> "Blackjack", cards |-> cards]
                            /\ pc' = AfterGame(BlackjackCreated(cards, defaultGuessed).game)
                            /\ UNCHANGED <<menu, hangmanCreated>>
                  [] MenuStarts(line) = "Hangman" ->
                        /\ hangmanCreated < MaxHangmanGames
                        /\ \E w \in 1..Len(words) :
                            /\ Becomes(HangmanCreated(5, words[w], defaultGuessed))
                            /\ created' = [cls |-> "Hangman", guessesLeft |-> 5, word |-> words[w]]
                            /\ pc' = AfterGame(HangmanCreated(5, words[w], defaultGuessed).game)
                        /\ hangmanCreated' = hangmanCreated + 1
                        /\ menu' = menu
                  [] MenuStarts(line) = "RockScissorPaper" ->
                        /\ Becomes(RockScissorPaperCreated(defaultGuessed))
                        /\ created' = [cls |-> "RockScissorPaper"]
                        /\ pc' = AfterGame(RockScissorPaperCreated(defaultGuessed).game)
                        /\ UNCHANGED <<menu, hangmanCreated>>
                  [] MenuStarts(line) = "None" ->
                        /\ Becomes(NoGame(defaultGuessed))
                        /\ menu' = MenuNextResult(menu, line)
                        /\ pc' = IF RunContinues(MenuNextResult(menu, line)) THEN "menu" ELSE "done"
                        /\ UNCHANGED <<created, hangmanCreated>>

\* One iteration of the run() of the game started by Menu.next: a line is read,
\* a non-empty one goes to the game's next; when the game is done its run()
\* returns, and so does Menu.next, with the Menu itself.
GameLine ==
    /\ pc = "game"
    /\ \E line \in GameLines :
        /\ answer' = line
        /\ calls' = RunCalls(line)
        /\ \E c \in IF game.cls = "RockScissorPaper"
                         /\ (\E i \in 1..Len(alternatives) : alternatives[i] = line)
                    THEN 0..(Len(alternatives) - 1)
                    ELSE {computerChoiceIndex} :
            \E o \in {RunIteration(Obj, RunCalls(line), c)} :
                /\ Becomes(o)
                /\ pc' = AfterGame(o.game)
    /\ UNCHANGED <<created, menu, hangmanCreated>>

NextArcade == MenuLine \/ GameLine

SpecArcade == InitArcade /\ [][NextArcade]_vars

----------------------------------------------------------------------------
\* Properties of FinishedGame, Hangman and RockScissorPaper

\* the distinct letters of the lowercased word
WordLetters(word) == {Lower(word[i]) : i \in 1..Len(word)}

\* the letters guessed so far that are not in the word
WrongLetters(word, guessed) == guessed \ WordLetters(word)

WinMessage(word) == <<"Du hittade ordet ", word>>

LossMessage(word) == <<"Du hittade inte ordet ", word>>

\* C1: a FinishedGame is absorbing: whatever the answer, next returns the same
\* object, done() is true and info() is still the message it was built with.
C1_FinishedAbsorbing ==
    [][game.cls = "FinishedGame" =>
          /\ game' = game
          /\ done(game')
          /\ info(game') = game.message]_vars

\* next("x") has been called on the FinishedGame that ended a round of
\* rock-scissor-paper (no round ends on the answer "x")
C1_Witness ==
    /\ created.cls = "RockScissorPaper"
    /\ game.cls = "FinishedGame"
    /\ answer = <<"x">>

\* C2: Hangman win: as long as fewer than n distinct letters outside the word
\* have been guessed, the game is finished with the win message once every
\* letter of the lowercased word has been guessed, and is still a Hangman
\* (no call returned a FinishedGame) before.
C2_HangmanWin ==
    (created.cls = "Hangman"
        /\ Cardinality(WrongLetters(created.word, g)) < created.guessesLeft)
    => IF WordLetters(created.word) \subseteq g
       THEN game = FinishedGame(WinMessage(created.word))
       ELSE game.cls = "Hangman"

\* "Apa" found with budget 5 after two wrong guesses
C2_Witness ==
    /\ created.cls = "Hangman"
    /\ created.guessesLeft = 5
    /\ game = FinishedGame(WinMessage(created.word))
    /\ Cardinality(WrongLetters(created.word, g)) = 2

\* C3: Hangman guess cost: a call of next costs one guess exactly when the
\* lowercased first character of the answer is neither in the lowercased word
\* nor already guessed, and costs nothing otherwise; the character is added to
\* guessed in every case.
C3_GuessCost ==
    [][game.cls = "Hangman" =>
          LET c == Lower(Head(answer'))
              cost == IF c \notin WordLetters(game.word) /\ c \notin game.guessed
                      THEN 1 ELSE 0
          IN  /\ gl' = game.guessesLeft - cost
              /\ g' = game.guessed \cup {c}
              /\ c \in g'
              /\ c \in game.guessed => gl' = game.guessesLeft
              /\ game'.cls = "Hangman" =>
                    /\ game'.guessesLeft = gl'
                    /\ game'.guessed = g']_vars

\* a game that has paid for a wrong guess and has a letter of the word guessed,
\* right after an answer of several characters
C3_Witness ==
    /\ game.cls = "Hangman"
    /\ game.guessesLeft = created.guessesLeft - 1
    /\ WordLetters(game.word) \cap game.guessed # {}
    /\ Len(answer) > 1
    /\ Cardinality(game.guessed) = 3

\* C4: Hangman loss: a game created with budget n and no letter guessed is
\* finished with the loss message exactly when n distinct letters outside the
\* word have been guessed (the word cannot be complete then), never with more.
C4_HangmanLoss ==
    created.cls = "Hangman" =>
        /\ Cardinality(WrongLetters(created.word, g)) <= created.guessesLeft
        /\ (game = FinishedGame(LossMessage(created.word)))
              <=> (Cardinality(WrongLetters(created.word, g)) = created.guessesLeft)
        /\ game = FinishedGame(LossMessage(created.word))
              => ~(WordLetters(created.word) \subseteq g)

\* budget 1, and the first guess is wrong
C4_Witness ==
    /\ created.cls = "Hangman"
    /\ created.guessesLeft = 1
    /\ game = FinishedGame(LossMessage(created.word))
    /\ Cardinality(g) = 1

C5_Inv ==
    game.cls = "Hangman" =>
        /\ game.guessesLeft >= 1
        /\ ~(WordLetters(game.word) \subseteq game.guessed)

C5_Step ==
    game.cls = "Hangman" =>
        /\ gl' <= game.guessesLeft
        /\ game'.cls \in {"Hangman", "FinishedGame"}
        /\ game'.cls = "Hangman" => game'.guessesLeft <= game.guessesLeft
        /\ (game'.cls = "FinishedGame") <=>
              (WordLetters(game.word) \subseteq g' \/ gl' < 1)

\* C5: Hangman state invariant: guessesLeft never increases; next returns a
\* FinishedGame exactly when the updated guessed set covers the word or the
\* updated guessesLeft is below 1; so every Hangman state reached has
\* guessesLeft >= 1 and a letter of the word still missing.
C5_HangmanInvariant == []C5_Inv /\ [][C5_Step]_vars

\* a Hangman on its last guess with a letter of the word already found
C5_Witness ==
    /\ game.cls = "Hangman"
    /\ game.guessesLeft = 1
    /\ created.guessesLeft = 5
    /\ WordLetters(game.word) \cap game.guessed # {}

\* rock, scissors, paper
Sten == <<"s","t","e","n">>

Sax == <<"s","a","x">>

Pase == <<"p","å","s","e">>

\* C6: RockScissorPaper outcome: for a valid choice p and an opponent draw c,
\* next returns the tie outcome iff c = p, the win outcome iff p beats c
\* (sten beats sax, sax beats påse, påse beats sten) and the loss outcome
\* otherwise; every choice beats exactly one other and loses to exactly one other.
C6_Outcome ==
    [][(game.cls = "RockScissorPaper" /\ answer' \in {Sten, Sax, Pase}) =>
          LET label == <<Sten, Sax, Pase>>
              p == CHOOSE i \in 0..2 : label[i + 1] = answer'
              c == computerChoiceIndex'
              beats == {<<0, 1>>, <<1, 2>>, <<2, 0>>}
          IN  /\ c \in 0..2
              /\ game'.cls = "FinishedGame"
              /\ (game'.message = <<"Oavgjort">>) <=> (c = p)
              /\ (game'.message = <<"Du vann mot ", label[c + 1]>>) <=> (<<p, c>> \in beats)
              /\ (game'.message = <<"Du förlorar mot ", label[c + 1]>>)
                    <=> (c # p /\ <<p, c>> \notin beats)
              /\ \A i \in 0..2 :
                    /\ winsOver[i + 1] \in (0..2) \ {i}
                    /\ Cardinality({k \in 0..2 : winsOver[k + 1] = i}) = 1]_vars

\* rock against scissors: a win
C6_Witness ==
    /\ created.cls = "RockScissorPaper"
    /\ answer = Sten
    /\ computerChoiceIndex = 1
    /\ game = FinishedGame(<<"Du vann mot ", Sax>>)

----------------------------------------------------------------------------
\* Properties of Blackjack

\* the value the rules give a rank: an ace is 11, a face card 10, the others their number
RankValue(name) ==
    CASE name = "Ess" -> 11
      [] name = "Två" -> 2
      [] name = "Tre" -> 3
      [] name = "Fyra" -> 4
      [] name = "Fem" -> 5
      [] name = "Sex" -> 6
      [] name = "Sju" -> 7
      [] name = "Åtta" -> 8
      [] name = "Nio" -> 9
      [] name \in {"Tio", "Knekt", "Dam", "Kung"} -> 10

\* the plain sum of a hand, from the ranks on its labels
RECURSIVE HandTotal(_)
HandTotal(cards) ==
    IF cards = <<>> THEN 0 ELSE RankValue(Head(cards).label[2]) + HandTotal(Tail(cards))

\* every card of the two hands and of the deck
AllCards == bankHand \o playerHand \o deck

\* C7: Blackjack card conservation: a fresh deck holds 52 cards with 52 distinct
\* (suit, rank) pairs, and in every state of a game the bank's hand, the
\* player's hand and the deck are disjoint, without duplicates, and together
\* hold exactly those 52 cards.
C7_CardConservation ==
    created.cls = "Blackjack" =>
          /\ Len(NewCards) = 52
          /\ Len(AllCards) = 52
          /\ {AllCards[i].label : i \in 1..Len(AllCards)}
                = {<<cardColor[s], cardName[r]>> : s \in 1..4, r \in 1..13}
          /\ \A i, j \in 1..Len(AllCards) : AllCards[i].label = AllCards[j].label => i = j

\* C8: Blackjack stand: next("stand") makes the bank draw from the top of the
\* deck, one card at a time, while its hand is worth less than 17, stops at the
\* first value >= 17 (drawing nothing if it is there already) and returns a
\* FinishedGame scored with that value.
C8_Stand ==
    [][(game.cls = "Blackjack" /\ answer' = Stand) =>
          LET n == Len(bankHand)
              drawn == Len(bankHand') - n
          IN  /\ game'.cls = "FinishedGame"
              /\ drawn >= 0
              /\ SubSeq(bankHand', 1, n) = bankHand
              /\ \A k \in 1..drawn : bankHand'[n + k] = deck[Len(deck) - k + 1]
              /\ deck' = SubSeq(deck, 1, Len(deck) - drawn)
              /\ playerHand' = playerHand
              /\ \A k \in n..(n + drawn - 1) : HandTotal(SubSeq(bankHand', 1, k)) < 17
              /\ HandTotal(bankHand') >= 17
              /\ game'.message[4] = HandTotal(bankHand')]_vars

\* a stand on which the bank drew two cards or more
C8_Witness ==
    /\ created.cls = "Blackjack"
    /\ game.cls = "FinishedGame"
    /\ answer = Stand
    /\ Len(playerHand) = 2
    /\ Len(bankHand) >= 4

\* C9, as stated: in every Blackjack state that is not finished, the state right
\* after the deal included, the player's hand is worth at most 21.
C9_PlayerAtMost21 ==
    game.cls = "Blackjack" => HandTotal(playerHand) <= 21

C9_Inv ==
    game.cls = "Blackjack" =>
        \/ HandTotal(playerHand) <= 21
        \/ /\ Len(playerHand) = 2
           /\ \A i \in 1..2 : playerHand[i].label[2] = "Ess"

C9_Step ==
    /\ (game.cls = "Blackjack" /\ answer' = Hit) =>
          /\ Len(playerHand') = Len(playerHand) + 1
          /\ SubSeq(playerHand', 1, Len(playerHand)) = playerHand
          /\ HandTotal(playerHand') > HandTotal(playerHand)
          /\ bankHand' = bankHand
          /\ (game'.cls = "FinishedGame") <=> (HandTotal(playerHand') > 21)
          /\ HandTotal(playerHand') <= 21 => game' = game
    /\ (created.cls = "Blackjack" /\ game.cls = "FinishedGame") =>
          /\ playerHand' = playerHand
          /\ game'.cls = "FinishedGame"

\* C9 (amended): the player's hand value strictly increases with each hit, the
\* game is finished the instant a hit takes it above 21, and no player draw
\* follows; so a Blackjack state that is not finished has a player's hand worth
\* at most 21, unless the hand is still the two cards of the deal and both are
\* aces (22).
C9_Hit == []C9_Inv /\ [][C9_Step]_vars

\* the player went bust on the second hit
C9_Witness ==
    /\ created.cls = "Blackjack"
    /\ game.cls = "FinishedGame"
    /\ Len(playerHand) = 4
    /\ Len(bankHand) = 2
    /\ HandTotal(playerHand) > 21

\* C10: Blackjack scoring: a resolved game declares the player the winner iff
\* (player value > bank value and player value <= 21) or bank value > 21, and
\* the bank otherwise, a value being the plain sum of the hand with every ace
\* counted as 11.
C10_Scoring ==
    (created.cls = "Blackjack" /\ game.cls = "FinishedGame") =>
        LET bankValue == HandTotal(bankHand)
            playerValue == HandTotal(playerHand)
        IN  /\ game.message[2] = [i \in 1..Len(bankHand) |-> bankHand[i].label]
            /\ game.message[4] = bankValue
            /\ game.message[6] = [i \in 1..Len(playerHand) |-> playerHand[i].label]
            /\ game.message[8] = playerValue
            /\ game.message[9] =
                  IF (playerValue > bankValue /\ playerValue <= 21) \/ bankValue > 21
                  THEN "Du vann"
                  ELSE "Banken vann"

\* equal values, at most 21: the bank wins
C10_Witness ==
    /\ created.cls = "Blackjack"
    /\ game.cls = "FinishedGame"
    /\ HandTotal(bankHand) = HandTotal(playerHand)
    /\ HandTotal(playerHand) <= 21
    /\ game.message[9] = "Banken vann"

----------------------------------------------------------------------------
\* Properties of GameState.run and of the Menu

C11_Inv ==
    /\ pc = "game" => ~done(game)
    /\ pc = "menu" => ~done(menu)
    /\ pc = "done" => done(menu)

C11_Step ==
    pc \in {"menu", "game"} =>
        /\ answer' = <<>> =>
              /\ calls' = <<>>
              /\ UNCHANGED <<objVars, created, pc, menu>>
        /\ answer' # <<>> => calls' = <<answer'>>
        /\ (pc = "game" /\ answer' # <<>>) =>
              game' = next(Obj, answer', computerChoiceIndex').game
        /\ (pc = "game" /\ pc' # "game") => (pc' = "menu" /\ done(game'))
        /\ (pc = "game" /\ pc' = "game") => ~done(game')
        /\ (pc = "menu" /\ pc' = "done") => done(menu')
        /\ (pc = "menu" /\ pc' = "menu") => ~done(menu')

\* C11: driving loop: run() makes no call of next on an empty line (the state
\* is kept and the prompt asked again), makes exactly one call per non-empty
\* line, with that line as argument, and returns only a state whose done() is
\* true: while a loop waits for input its state is not done.
C11_DrivingLoop == []C11_Inv /\ [][C11_Step]_vars

\* an empty line typed at the prompt of a Hangman that has letters guessed
C11_Witness ==
    /\ pc = "game"
    /\ game.cls = "Hangman"
    /\ game.guessed # {}
    /\ answer = <<>>
    /\ calls = <<>>

C12_Inv ==
    /\ pc \in {"menu", "game", "done"}
    /\ pc \in {"menu", "game"} => menu = [cls |-> "Menu"]
    /\ pc = "done" => (menu = [cls |-> "FinishedGame", message |-> <<>>] /\ answer = <<"x">>)
    /\ pc = "game" => game.cls \in {"Blackjack", "Hangman", "RockScissorPaper"}
    /\ (pc = "menu" /\ game.cls # "None") => game.cls = "FinishedGame"

C12_Step ==
    /\ (pc = "menu" /\ answer' = <<"1">>) =>
          /\ game'.cls = "Blackjack"
          /\ Len(bankHand') = 2 /\ Len(playerHand') = 2
          /\ pc' = "game" /\ menu' = menu
    /\ (pc = "menu" /\ answer' = <<"2">>) =>
          /\ game'.cls = "Hangman"
          /\ game'.guessesLeft = 5
          /\ \E w \in 1..Len(words) : game'.word = words[w]
          /\ pc' = "game" /\ menu' = menu
    /\ (pc = "menu" /\ answer' = <<"3">>) =>
          /\ game' = [cls |-> "RockScissorPaper"]
          /\ pc' = "game" /\ menu' = menu
    /\ (pc = "menu" /\ answer' = <<"x">>) =>
          /\ menu' = [cls |-> "FinishedGame", message |-> <<>>]
          /\ pc' = "done"
          /\ game'.cls = "None" /\ created' = created
    /\ (pc = "menu" /\ answer' \notin {<<>>, <<"1">>, <<"2">>, <<"3">>, <<"x">>}) =>
          /\ menu' = menu
          /\ pc' = "menu"
          /\ game'.cls = "None" /\ created' = created
    /\ pc = "game" =>
          /\ menu' = menu
          /\ pc' \in {"game", "menu"}
          /\ (pc' = "menu") <=> (game'.cls = "FinishedGame")
    /\ pc' = "done" => (pc = "menu" /\ answer' = <<"x">>)

\* C12: Menu protocol: "1", "2" and "3" start Blackjack, Hangman (budget 5, a
\* word of the list) and RockScissorPaper; the game's loop runs until the game
\* is finished and control is then back at the Menu itself, not done; "x"
\* returns a FinishedGame with the empty message; any other non-empty line
\* starts no game and returns the Menu.  The Menu's loop ends only on an "x"
\* typed at the Menu, never while a game is unfinished.
C12_MenuProtocol == []C12_Inv /\ [][C12_Step]_vars

\* back at the Menu after a game of Blackjack played to its end
C12_Witness ==
    /\ pc = "menu"
    /\ menu = [cls |-> "Menu"]
    /\ created.cls = "Blackjack"
    /\ game.cls = "FinishedGame"

C14_Inv ==
    /\ defaultGuessed = {}
    /\ ~guessedMutated
    /\ (game.cls = "Hangman" /\ guessedIsDefault) => game.guessed = {}

C14_Step ==
    /\ (pc = "menu" /\ answer' = <<"2">>) =>
          /\ game'.cls = "Hangman"
          /\ game'.guessed = {}
    /\ (pc = "game" /\ game.cls = "Hangman" /\ answer' # <<>>) =>
          /\ ~guessedMutated'
          /\ defaultGuessed' = defaultGuessed
          /\ game'.cls = "Hangman" => game'.guessed = game.guessed \cup {Lower(Head(answer'))}

\* C14: Hangman instances do not share guessed letters: every Hangman the Menu
\* creates through Hangman.create starts with an empty guessed set, however
\* many games of Hangman were created and played before it, and no call of
\* next changes the set object of the state it is called on, nor the default
\* set of __init__ that later games receive.
C14_NoSharedGuessed == []C14_Inv /\ [][C14_Step]_vars

\* the second Hangman of the process, fresh, after the first was played to its end
C14_Witness ==
    /\ pc = "game"
    /\ hangmanCreated = 2
    /\ game.cls = "Hangman"
    /\ game.guessed = {}
    /\ guessedIsDefault

----------------------------------------------------------------------------
\* Termination

\* what is left of a game: the guesses left and the letters still missing, the
\* one unresolved round, the room below the bust threshold; nothing once finished
C13_Measure ==
    CASE game.cls = "Hangman" ->
            game.guessesLeft + Cardinality(WordLetters(game.word) \ game.guessed)
      [] game.cls = "RockScissorPaper" -> 1
      [] game.cls = "Blackjack" -> 23 - HandTotal(playerHand)
      [] OTHER -> 0

\* a letter for Hangman, one of the three choices, hit or stand
C13_ValidMove ==
    \/ game.cls = "Hangman" /\ Len(answer') = 1
    \/ game.cls = "RockScissorPaper" /\ answer' \in {Sten, Sax, Pase}
    \/ game.cls = "Blackjack" /\ answer' \in {<<"h","i","t">>, <<"s","t","a","n","d">>}

\* C13, as stated: every valid move, for Hangman any letter, one already guessed
\* included, strictly shrinks what is left of the game.
C13_EveryValidMoveShrinks ==
    [][C13_ValidMove => C13_Measure' < C13_Measure]_vars

C13_Inv ==
    /\ C13_Measure \in 0..23
    /\ (C13_Measure = 0) <=> (game.cls = "FinishedGame")

C13_Step ==
    (C13_ValidMove /\ (game.cls = "Hangman" => Lower(Head(answer')) \notin game.guessed))
        => C13_Measure' < C13_Measure

\* C13 (amended): every valid move (Hangman: a letter not guessed before;
\* RockScissorPaper: one of the three choices; Blackjack: hit or stand)
\* strictly shrinks a resource that is a natural number and is 0 exactly in a
\* FinishedGame, so a sequence of such moves reaches a FinishedGame after
\* finitely many of them.  A letter already guessed changes nothing.
C13_Termination == []C13_Inv /\ [][C13_Step]_vars

\* a Hangman after three letters, two of them wrong
C13_Witness ==
    /\ created.cls = "Hangman"
    /\ game.cls = "Hangman"
    /\ Len(answer) = 1
    /\ Cardinality(game.guessed) = 3
    /\ game.guessesLeft = created.guessesLeft - 2
    /\ C13_Measure < created.guessesLeft + Cardinality(WordLetters(created.word)) - 2

----------------------------------------------------------------------------
\* Properties of the draws of Blackjack and of unrecognized input

C15_Inv ==
    created.cls = "Blackjack" =>
        LET n == Len(created.cards)
        IN  /\ Len(bankHand) >= 2 /\ Len(playerHand) >= 2
            /\ bankHand[1] = created.cards[n] /\ bankHand[2] = created.cards[n - 1]
            /\ playerHand[1] = created.cards[n - 2] /\ playerHand[2] = created.cards[n - 3]
            /\ answer = <<>> => (Len(bankHand) = 2 /\ Len(playerHand) = 2)
            /\ game.cls = "Blackjack" => Len(bankHand) = 2
            /\ ends = IF game.cls = "FinishedGame" THEN 1 ELSE 0

C15_Step ==
    created.cls = "Blackjack" =>
        /\ bankHand' # bankHand => (game.cls = "Blackjack" /\ answer' = <<"s","t","a","n","d">>)
        /\ (game.cls = "Blackjack" /\ answer' = <<"h","i","t">> /\ HandTotal(playerHand') > 21) =>
              /\ bankHand' = bankHand
              /\ game'.cls = "FinishedGame"
              /\ ends' = 1
        /\ game.cls = "FinishedGame" => ends' = ends

\* C15: Blackjack draw ordering: the bank receives the first two cards popped
\* from the deck and the player the next two, so both hands start with 2 cards;
\* the bank's hand is those 2 cards in every state that is not finished, the
\* bank draws only while "stand" is handled, a "hit" that busts the player ends
\* the game with no draw of the bank, and end() is called exactly once a game.
C15_DrawOrdering == []C15_Inv /\ [][C15_Step]_vars

\* the first hit busts the player: the game is scored once, the bank has its two cards
C15_Witness ==
    /\ created.cls = "Blackjack"
    /\ game.cls = "FinishedGame"
    /\ answer = <<"h","i","t">>
    /\ ends = 1
    /\ Len(bankHand) = 2
    /\ Len(playerHand) = 3

\* C16: the deck of a Blackjack game is never exhausted: whatever the shuffle
\* and the answers, no draw is made on an empty deck, and the two hands
\* together hold at most 21 drawn cards.
C16_DeckNeverExhausted ==
    created.cls = "Blackjack" =>
        /\ game.cls \in {"Blackjack", "FinishedGame"}
        /\ Len(bankHand) + Len(playerHand) <= 21
        /\ Len(bankHand) + Len(playerHand) + Len(deck) = Len(created.cards)
        /\ Len(deck) >= 1

\* thirteen cards drawn in one game, the most any game draws
C16_Witness ==
    /\ created.cls = "Blackjack"
    /\ game.cls = "FinishedGame"
    /\ Len(bankHand) + Len(playerHand) = 13
    /\ Len(deck) = Len(created.cards) - 13

C17_Step ==
    game.cls = "RockScissorPaper" =>
        IF answer' \in {Sten, Sax, Pase}
        THEN /\ game'.cls = "FinishedGame"
             /\ done(game')
        ELSE /\ game' = game
             /\ ~done(game')
             /\ info(game') = <<>>
             /\ computerChoiceIndex' = computerChoiceIndex

\* C17: RockScissorPaper input handling: an answer that is not exactly one of
\* the three labels returns the same state (not done, info() empty, no draw of
\* the opponent), and an answer that is one of them returns a FinishedGame in
\* that single step.
C17_InputHandling == [][C17_Step]_vars

\* "hit" has been answered to rock-scissor-paper: still the same round, nothing drawn
C17_Witness ==
    /\ created.cls = "RockScissorPaper"
    /\ game = [cls |-> "RockScissorPaper"]
    /\ answer = <<"h","i","t">>
    /\ computerChoiceIndex = -1

C18_Step ==
    (game.cls = "Blackjack" /\ answer' \notin {<<"h","i","t">>, <<"s","t","a","n","d">>}) =>
        /\ game' = game
        /\ bankHand' = bankHand
        /\ playerHand' = playerHand
        /\ deck' = deck
        /\ ends' = ends
        /\ ~done(game')
        /\ info(game') = <<>>

\* C18: Blackjack unrecognized input: on any answer other than exactly "hit"
\* or "stand", next returns the same state, with the bank's hand, the player's
\* hand and the deck unchanged, done() false and info() empty.
C18_UnrecognizedInput == [][C18_Step]_vars

\* "sten" answered to a game of Blackjack after one hit
C18_Witness ==
    /\ created.cls = "Blackjack"
    /\ game.cls = "Blackjack"
    /\ answer = Sten
    /\ Len(playerHand) = 3
    /\ Len(bankHand) = 2

C19_Step ==
    (game.cls = "Blackjack" /\ answer' = <<"h","i","t">> /\ HandTotal(playerHand') > 21) =>
        /\ game'.cls = "FinishedGame"
        /\ bankHand' = bankHand
        /\ Len(bankHand') = 2
        /\ game'.message[9] \in {"Du vann", "Banken vann"}
        /\ (game'.message[9] = "Du vann") <=> (HandTotal(bankHand) > 21)
        /\ (HandTotal(bankHand) > 21) <=>
              (bankHand[1].label[2] = "Ess" /\ bankHand[2].label[2] = "Ess")
        /\ HandTotal(bankHand) > 21 => HandTotal(bankHand) = 22

\* C19: bust outcome: when a "hit" takes the player's hand above 21, the
\* FinishedGame declares the player the winner if and only if the bank's
\* untouched two-card hand is itself above 21, which is the case exactly when
\* it is two aces (22); otherwise the busted player loses.
C19_BustOutcome == [][C19_Step]_vars

\* a busted player wins against the bank's two aces
C19_Witness ==
    /\ created.cls = "Blackjack"
    /\ game.cls = "FinishedGame"
    /\ answer = <<"h","i","t">>
    /\ HandTotal(playerHand) > 21
    /\ HandTotal(bankHand) = 22
    /\ game.message[9] = "Du vann"

====
